---- MODULE Spec2Model ----
(***************************************************************************)
(* A model of snaketalk's event-routing core:                              *)
(*   - ThreadPool (driver.py): the worker pool that runs blocking handlers *)
(*   - EventHandler (event_handler.py): normalisation, ignore filter,      *)
(*     pattern matching and fan-out of handler invocations as asyncio tasks*)
(*   - Plugin (plugins/base.py): listener discovery and call_function      *)
(*   - Message (message.py): the derived fields of a posted event          *)
(* Strings are sequences of one-character strings, so that the regular     *)
(* expressions and the str methods are computed character by character.    *)
(***************************************************************************)
EXTENDS Integers, Sequences, FiniteSets, TLC

VARIABLES
    \* ---- ThreadPool (driver.py) ----
    num_workers,    \* ThreadPool.num_workers
    started,        \* start() has been called (the threads exist)
    alive,          \* ThreadPool.alive
    queue,          \* ThreadPool._queue, a FIFO of tasks
    busy,           \* ThreadPool._busy_workers.qsize()
    wpc,            \* position of each worker thread in handle_work
    wcur,           \* the task a worker took from the queue
    stopPc,         \* position of the caller inside stop()
    sentinelsPut,   \* iterations done of stop()'s first loop
    addedKinds,     \* history: the kind of the i-th task given to add_task
    preStart,       \* history: how many tasks were enqueued before start()
    preStop,        \* history: how many tasks were enqueued before stop() began
    completed,      \* history: ids of the tasks whose function returned
    takenOrder,     \* history: ids of add_task's tasks in the order workers took them
    \* ---- Driver, Settings, Plugin, Function ----
    username,       \* Driver.username
    IGNORE_USERS,   \* Settings.IGNORE_USERS, a list of names
    plugins,        \* the Plugin instances: [cls, listeners]
    fplugin,        \* Function.plugin of every Function object (0: None)
    pdriver,        \* Plugin.driver of every plugin ("None" until initialize)
    on_start_calls, \* history: how often on_start() ran, for every plugin
    \* ---- EventHandler ----
    ignore_own_messages,  \* EventHandler.ignore_own_messages
    message_listeners,    \* EventHandler.message_listeners (insertion-ordered)
    tasks,          \* the asyncio tasks made by _handle_post, in creation order
    lastEvent,      \* history: the raw event given to the last handle_event
    raised,         \* history: the last handle_event raised to its caller
    \* ---- mention stripping applied to one text ----
    stripPc, sText, sOnce, sTwice,
    \* ---- webhooks (EventHandler) ----
    webhook_listeners,  \* EventHandler.webhook_listeners (insertion-ordered)
    webhook_queue,      \* EventHandler.webhook_queue, a FIFO of (webhook_id, data)
    pollerPc,           \* the check_webhook_queue task: "off", "poll", "dead"
    lastWebhook,        \* history: the item last given to _handle_webhook
    webhooksPut         \* history: how many items were put on the queue

poolVars == <<num_workers, started, alive, queue, busy, wpc, wcur, stopPc,
              sentinelsPut, addedKinds, preStart, preStop, completed,
              takenOrder>>

engineVars == <<username, IGNORE_USERS, plugins, fplugin, pdriver,
                on_start_calls, ignore_own_messages, message_listeners, tasks,
                lastEvent, raised>>

stripVars == <<stripPc, sText, sOnce, sTwice>>

webhookVars == <<webhook_listeners, webhook_queue, pollerPc, lastWebhook,
                 webhooksPut>>

vars == <<poolVars, engineVars, stripVars, webhookVars>>

(***************************************************************************)
(* Bounds of the model                                                     *)
(***************************************************************************)
MaxWorkers == 2     \* num_workers ranges over 1..MaxWorkers
MaxTasks == 2       \* calls of add_task in one run
MaxInFlight == 3    \* unfinished handler tasks plus queued pool tasks
MaxStripLen == 4    \* length of the texts mention stripping is tried on
MaxPlugins == 3     \* plugin instances in one run of the plugin lifecycle
MaxOnStart == 2     \* calls of on_start() on one plugin
MaxWebhooks == 3    \* items put on the webhook queue in one run

(***************************************************************************)
(* ThreadPool                                                              *)
(***************************************************************************)
\* What a task's function does when a worker calls it: return or raise.
TaskKinds == {"ok", "raise"}

Task(id, kind) == [id |-> id, kind |-> kind, fn |-> "f", args |-> <<>>]

\* A worker that holds no task
NoTask == Task(0, "none")

\* (self._stop_thread, tuple())
StopTask == Task(0, "sentinel")

Workers == 1..num_workers

\* stop(): for _ in range(self.num_workers)
SentinelCountShort == num_workers - 1
SentinelCount == num_workers

\* ThreadPool.__init__
PoolConstructed(n) ==
    /\ num_workers = n
    /\ started = FALSE
    /\ alive = FALSE
    /\ queue = <<>>
    /\ busy = 0
    /\ wpc = [w \in 1..num_workers |-> "unstarted"]
    /\ wcur = [w \in 1..num_workers |-> NoTask]
    /\ stopPc = "none"
    /\ sentinelsPut = 0
    /\ addedKinds = <<>>
    /\ preStart = 0
    /\ preStop = 0
    /\ completed = {}
    /\ takenOrder = <<>>

\* self._queue.put((function, args)), with the history of what was enqueued
Enqueue(kind) ==
    /\ Len(addedKinds) < MaxTasks
    /\ queue' = Append(queue, Task(Len(addedKinds) + 1, kind))
    /\ addedKinds' = Append(addedKinds, kind)
    /\ preStart' = IF started THEN preStart ELSE preStart + 1
    /\ preStop' = IF stopPc = "none" THEN preStop + 1 ELSE preStop

\* ThreadPool.get_busy_workers(): self._busy_workers.qsize()
get_busy_workers == busy

add_task ==
    /\ \E kind \in TaskKinds : Enqueue(kind)
    /\ UNCHANGED <<num_workers, started, alive, busy, wpc, wcur, stopPc,
                   sentinelsPut, completed>>
    /\ UNCHANGED takenOrder
    /\ UNCHANGED <<engineVars, stripVars, webhookVars>>

start ==
    /\ ~started
    /\ started' = TRUE
    /\ alive' = TRUE
    /\ wpc' = [w \in Workers |-> "check"]
    /\ UNCHANGED <<num_workers, queue, busy, wcur, stopPc, sentinelsPut,
                   addedKinds, preStart, preStop, completed>>
    /\ UNCHANGED takenOrder
    /\ UNCHANGED <<engineVars, stripVars, webhookVars>>

\* while self.alive:
handle_work_check(w) ==
    /\ wpc[w] = "check"
    /\ wpc' = [wpc EXCEPT ![w] = IF alive THEN "get" ELSE "exited"]
    /\ UNCHANGED <<num_workers, started, alive, queue, busy, wcur, stopPc,
                   sentinelsPut, addedKinds, preStart, preStop, completed>>
    /\ UNCHANGED takenOrder
    /\ UNCHANGED <<engineVars, stripVars, webhookVars>>

\* handle_work's get, were the queue to hand out its newest item first
handle_work_get_newest(w) ==
    /\ wpc[w] = "get"
    /\ queue # <<>>
    /\ wcur' = [wcur EXCEPT ![w] = queue[Len(queue)]]
    /\ queue' = SubSeq(queue, 1, Len(queue) - 1)
    /\ busy' = busy + 1
    /\ wpc' = [wpc EXCEPT ![w] = "call"]
    /\ takenOrder' = IF queue[Len(queue)].id > 0
                     THEN Append(takenOrder, queue[Len(queue)].id)
                     ELSE takenOrder
    /\ UNCHANGED <<num_workers, started, alive, stopPc, sentinelsPut,
                   addedKinds, preStart, preStop, completed>>
    /\ UNCHANGED <<engineVars, stripVars, webhookVars>>
\* function, arguments = self._queue.get()   (blocks while the queue is empty)
\* self._busy_workers.put(1)
handle_work_get(w) ==
    /\ wpc[w] = "get"
    /\ queue # <<>>
    /\ wcur' = [wcur EXCEPT ![w] = Head(queue)]
    /\ queue' = Tail(queue)
    /\ busy' = busy + 1
    /\ wpc' = [wpc EXCEPT ![w] = "call"]
    /\ takenOrder' = IF Head(queue).id > 0 THEN Append(takenOrder, Head(queue).id)
                     ELSE takenOrder
    /\ UNCHANGED <<num_workers, started, alive, stopPc, sentinelsPut,
                   addedKinds, preStart, preStop, completed>>
    /\ UNCHANGED <<engineVars, stripVars, webhookVars>>

\* function(*arguments): no try/except around it, so an exception leaves
\* handle_work and the thread ends.
handle_work_call(w) ==
    /\ wpc[w] = "call"
    /\ UNCHANGED takenOrder
    /\ \/ /\ wcur[w].kind = "ok"
          /\ completed' = completed \cup {wcur[w].id}
          /\ wpc' = [wpc EXCEPT ![w] = "unmark"]
       \/ /\ wcur[w].kind \in {"sentinel", "skip"}
          /\ wpc' = [wpc EXCEPT ![w] = "unmark"]
          /\ UNCHANGED completed
       \/ /\ wcur[w].kind = "raise"
          /\ wpc' = [wpc EXCEPT ![w] = "dead"]
          /\ UNCHANGED completed
    /\ UNCHANGED <<num_workers, started, alive, queue, busy, wcur, stopPc,
                   sentinelsPut, addedKinds, preStart, preStop>>
    /\ UNCHANGED <<engineVars, stripVars, webhookVars>>

\* self._queue.task_done(); self._busy_workers.get()
handle_work_unmark(w) ==
    /\ wpc[w] = "unmark"
    /\ busy' = busy - 1
    /\ wcur' = [wcur EXCEPT ![w] = NoTask]
    /\ wpc' = [wpc EXCEPT ![w] = "check"]
    /\ UNCHANGED <<num_workers, started, alive, queue, stopPc, sentinelsPut,
                   addedKinds, preStart, preStop, completed>>
    /\ UNCHANGED takenOrder
    /\ UNCHANGED <<engineVars, stripVars, webhookVars>>

handle_work(w) ==
    \/ handle_work_check(w)
    \/ handle_work_get(w)
    \/ handle_work_call(w)
    \/ handle_work_unmark(w)

\* stop(): self.alive = False.  stop() is called once, on a started pool.
stop_begin ==
    /\ started
    /\ stopPc = "none"
    /\ alive' = FALSE
    /\ stopPc' = IF SentinelCount > 0 THEN "signal" ELSE "join"
    /\ UNCHANGED <<num_workers, started, queue, busy, wpc, wcur, sentinelsPut,
                   addedKinds, preStart, preStop, completed>>
    /\ UNCHANGED takenOrder
    /\ UNCHANGED <<engineVars, stripVars, webhookVars>>

\* stop(): one iteration of  for _ in range(num_workers): self._queue.put(...)
stop_signal ==
    /\ stopPc = "signal"
    /\ queue' = Append(queue, StopTask)
    /\ sentinelsPut' = sentinelsPut + 1
    /\ stopPc' = IF sentinelsPut + 1 >= SentinelCount THEN "join" ELSE "signal"
    /\ UNCHANGED <<num_workers, started, alive, busy, wpc, wcur, addedKinds,
                   preStart, preStop, completed>>
    /\ UNCHANGED takenOrder
    /\ UNCHANGED <<engineVars, stripVars, webhookVars>>

\* stop(): for thread in self._threads: thread.join()
stop_join ==
    /\ stopPc = "join"
    /\ \A w \in Workers : wpc[w] \in {"exited", "dead"}
    /\ stopPc' = "returned"
    /\ UNCHANGED <<num_workers, started, alive, queue, busy, wpc, wcur,
                   sentinelsPut, addedKinds, preStart, preStop, completed>>
    /\ UNCHANGED takenOrder
    /\ UNCHANGED <<engineVars, stripVars, webhookVars>>

stop == stop_begin \/ stop_signal \/ stop_join

(***************************************************************************)
(* str methods and regular expressions, character by character             *)
(***************************************************************************)
\* The characters str.strip() removes and \s matches
Whitespace == {" ", "\t", "\n"}

\* [a-zA-Z0-9_] over the model's alphabet
WordChars == {"a", "b", "e", "f", "g", "h", "i", "l", "n", "o", "p", "t",
              "A", "B", "_"}

RECURSIVE LStrip(_, _)
LStrip(s, cs) ==
    IF s # <<>> /\ Head(s) \in cs THEN LStrip(Tail(s), cs) ELSE s

RECURSIVE RStrip(_, _)
RStrip(s, cs) ==
    IF s # <<>> /\ s[Len(s)] \in cs
    THEN RStrip(SubSeq(s, 1, Len(s) - 1), cs)
    ELSE s

\* str.strip(chars)
StrStrip(s, cs) == RStrip(LStrip(s, cs), cs)

LowerChar(c) == CASE c = "A" -> "a" [] c = "B" -> "b" [] OTHER -> c

\* str.lower()
StrLower(s) == [i \in 1..Len(s) |-> LowerChar(s[i])]

\* t[from..] starts with the literal lit
StartsWith(t, from, lit) ==
    /\ from - 1 + Len(lit) <= Len(t)
    /\ \A i \in 1..Len(lit) : t[from - 1 + i] = lit[i]

\* The end of the match of  ^@?{name}\:?\s?  (at_optional) or of
\* ^@{name}\:?\s?  (not at_optional) at the start of t; -1 when there is none.
\* Every quantifier is greedy.
NameMatchEndGreedySpaces(at_optional, name, t) ==
    LET withAt == StartsWith(t, 1, <<"@">> \o name)
        without == at_optional /\ StartsWith(t, 1, name)
        afterName == IF withAt THEN 1 + Len(name)
                     ELSE IF without THEN Len(name) ELSE -1
        afterColon == IF afterName >= 0 /\ afterName < Len(t)
                         /\ t[afterName + 1] = ":"
                      THEN afterName + 1 ELSE afterName
        spaces == {n \in 0..(Len(t) - afterColon) :
                      \A i \in 1..n : t[afterColon + i] \in Whitespace}
    IN  IF afterName = -1 THEN -1
        ELSE afterColon + CHOOSE n \in spaces : \A m \in spaces : m <= n
NameMatchEnd(at_optional, name, t) ==
    LET withAt == StartsWith(t, 1, <<"@">> \o name)
        without == at_optional /\ StartsWith(t, 1, name)
        afterName == IF withAt THEN 1 + Len(name)
                     ELSE IF without THEN Len(name) ELSE -1
        afterColon == IF afterName >= 0 /\ afterName < Len(t)
                         /\ t[afterName + 1] = ":"
                      THEN afterName + 1 ELSE afterName
        afterSpace == IF afterColon >= 0 /\ afterColon < Len(t)
                         /\ t[afterColon + 1] \in Whitespace
                      THEN afterColon + 1 ELSE afterColon
    IN  IF afterName = -1 THEN -1 ELSE afterSpace

\* pattern.sub("", t): the pattern is anchored with ^, so it matches at most
\* once, at the start
NameMatcherSub(at_optional, name, t) ==
    LET e == NameMatchEnd(at_optional, name, t)
    IN  IF e = -1 THEN t ELSE SubSeq(t, e + 1, Len(t))

\* EventHandler._name_matcher = re.compile(rf"^@?{self.driver.username}\:?\s?")
EH_name_matcher_sub(t) == NameMatcherSub(TRUE, username, t)

\* MessageHandler._name_matcher = re.compile(rf"^@{self.driver.username}\:?\s?")
MH_name_matcher_sub(t) == NameMatcherSub(FALSE, username, t)

\* A listener's compiled pattern: a literal, then at most one group, then an
\* optional $;  anchored says whether the pattern text begins with ^.
\*   grp: "none", "word" for (\w+), "star" for (\w*), "opt" for (\w+)?
Pattern(anchored, lit, grp, end) ==
    [anchored |-> anchored, lit |-> lit, grp |-> grp, end |-> end]

\* The longest run of word characters of t from index from
WordRun(t, from) ==
    LET lens == {n \in 0..(Len(t) - from + 1) :
                    \A i \in 0..(n - 1) : t[from + i] \in WordChars}
    IN  CHOOSE n \in lens : \A m \in lens : m <= n

NoMatch == [matched |-> FALSE, groups |-> <<>>]

Matched(groups) == [matched |-> TRUE, groups |-> groups]

\* match.groups() gives None for a group that took no part in the match
NoGroup == <<"None">>

\* matcher.match(text): re.match looks for a match at index 0 only, whether or
\* not the pattern begins with ^.  The result carries match.groups().
ReMatch(p, t) ==
    IF ~StartsWith(t, 1, p.lit) THEN NoMatch
    ELSE LET n == Len(p.lit)
             w == IF p.grp = "none" THEN 0 ELSE WordRun(t, n + 1)
             EndOk(e) == ~p.end \/ e = Len(t)
         IN  CASE p.grp = "none" ->
                    IF EndOk(n) THEN Matched(<<>>) ELSE NoMatch
               [] p.grp = "word" ->
                    IF w > 0 /\ EndOk(n + w)
                    THEN Matched(<<SubSeq(t, n + 1, n + w)>>) ELSE NoMatch
               [] p.grp = "star" ->
                    IF EndOk(n + w)
                    THEN Matched(<<SubSeq(t, n + 1, n + w)>>) ELSE NoMatch
               [] p.grp = "opt" ->
                    IF w > 0 /\ EndOk(n + w)
                    THEN Matched(<<SubSeq(t, n + 1, n + w)>>)
                    ELSE IF EndOk(n) THEN Matched(<<NoGroup>>) ELSE NoMatch

(***************************************************************************)
(* Function objects and plugins                                            *)
(***************************************************************************)
P_a_word == Pattern(TRUE, <<"!", "a", " ">>, "word", TRUE)      \* ^!a (\w+)$
P_a == Pattern(TRUE, <<"!", "a">>, "none", FALSE)               \* ^!a
P_ping == Pattern(TRUE, <<"!", "p", "i", "n", "g">>, "none", TRUE)  \* ^!ping$
P_help == Pattern(TRUE, <<"h", "e", "l", "p">>, "none", TRUE)   \* ^help$
P_bang_help == Pattern(TRUE, <<"!", "h", "e", "l", "p">>, "none", TRUE) \* ^!help$
P_dm == Pattern(TRUE, <<"!", "d", "m">>, "none", FALSE)             \* ^!dm
P_foo == Pattern(FALSE, <<"f", "o", "o">>, "none", FALSE)           \* foo
P_o_opt == Pattern(TRUE, <<"!", "o">>, "opt", TRUE)                 \* ^!o(\w+)?$
P_s_star == Pattern(TRUE, <<"!", "s">>, "star", TRUE)               \* ^!s(\w*)$

P_hook == Pattern(TRUE, <<"p", "i", "n", "g">>, "none", FALSE)      \* ^ping, on webhook ids

\* @listen_to("^help$", needs_mention=True)
help_needs_mention_unset == FALSE
help_needs_mention == TRUE

\* A Function object's fields
\*   is_coroutine: Function.is_coroutine
\*   does: what the handler does when called: return, raise, or suspend at an
\*         await before returning
Fn(matcher, is_coroutine, does, siblings, direct_only, needs_mention) ==
    [matcher |-> matcher, is_coroutine |-> is_coroutine, does |-> does,
     siblings |-> siblings, direct_only |-> direct_only,
     needs_mention |-> needs_mention]

\* The Function objects.  help and its sibling are attributes of the class
\* Plugin, so every plugin instance finds the same two objects.
Functions ==
    [ help      |-> Fn(P_help, TRUE, "return", <<"help_bang">>, FALSE,
                       help_needs_mention),
      help_bang |-> Fn(P_bang_help, TRUE, "return", <<>>, FALSE, FALSE),
      echo      |-> Fn(P_a_word, FALSE, "return", <<>>, FALSE, FALSE),
      ping      |-> Fn(P_ping, TRUE, "return", <<>>, FALSE, FALSE),
      boom      |-> Fn(P_a, TRUE, "raise", <<>>, FALSE, FALSE),
      wait      |-> Fn(P_a, TRUE, "await", <<>>, FALSE, FALSE),
      dm        |-> Fn(P_dm, TRUE, "return", <<>>, TRUE, FALSE),
      find      |-> Fn(P_foo, TRUE, "return", <<>>, FALSE, FALSE),
      opt       |-> Fn(P_o_opt, TRUE, "return", <<>>, FALSE, FALSE),
      star      |-> Fn(P_s_star, TRUE, "return", <<>>, FALSE, FALSE),
      hook      |-> Fn(P_hook, TRUE, "return", <<>>, FALSE, FALSE) ]

FunctionNames == DOMAIN Functions

\* dir(self) restricted to the attributes that are Function objects, in dir's
\* (alphabetical) order, for three plugin classes
ClassFunctions ==
    [ Ping  |-> <<"echo", "help", "ping">>,
      Alpha |-> <<"boom", "help", "wait">>,
      Beta  |-> <<"dm", "find", "help", "opt", "star">> ]

\* defaultdict(list): d[key].append(value) on an insertion-ordered mapping,
\* kept as a sequence of [matcher, functions]
DictAppend(d, key, value) ==
    IF \E k \in DOMAIN d : d[k].matcher = key
    THEN [k \in DOMAIN d |->
            IF d[k].matcher = key
            THEN [d[k] EXCEPT !.functions = Append(@, value)]
            ELSE d[k]]
    ELSE Append(d, [matcher |-> key, functions |-> <<value>>])

RECURSIVE DictExtend(_, _, _)
\* d[key].extend(values)
DictExtend(d, key, values) ==
    IF values = <<>> THEN d
    ELSE DictExtend(DictAppend(d, key, Head(values)), key, Tail(values))

\* Plugin.initialize, the registration loop: every Function attribute and its
\* siblings, in order
RECURSIVE RegisterAll(_, _)
RegisterAll(listeners, fns) ==
    IF fns = <<>> THEN listeners
    ELSE RegisterAll(DictAppend(listeners, Functions[Head(fns)].matcher, Head(fns)),
                     Tail(fns))

RECURSIVE WithSiblings(_)
\* [attribute] + attribute.siblings for every attribute, concatenated
WithSiblings(attrs) ==
    IF attrs = <<>> THEN <<>>
    ELSE <<Head(attrs)>> \o Functions[Head(attrs)].siblings
            \o WithSiblings(Tail(attrs))

\* Plugin().initialize(driver): the plugin with its listeners filled
InitializedPlugin(cls) ==
    [cls |-> cls,
     listeners |-> RegisterAll(<<>>, WithSiblings(ClassFunctions[cls]))]

\* function.plugin = self, for the plugins initialized in order: the owner of
\* a Function object is the last plugin that registered it (0: None)
OwnerAfterInitialize(classes) ==
    [f \in FunctionNames |->
        LET has == {i \in DOMAIN classes :
                      \E k \in DOMAIN WithSiblings(ClassFunctions[classes[i]]) :
                          WithSiblings(ClassFunctions[classes[i]])[k] = f}
        IN  IF has = {} THEN 0 ELSE CHOOSE i \in has : \A j \in has : j <= i]

\* Plugin.__init__: no driver, no listeners
ConstructedPlugin(cls) == [cls |-> cls, listeners |-> <<>>]

\* Plugin.initialize(driver) on plugin p: bind the driver, then register every
\* Function attribute and its siblings, each with  function.plugin = self,  and
\* return.  A plugin is initialized once, by whoever built it.
initialize(p) ==
    /\ p \in DOMAIN plugins
    /\ pdriver[p] = "None"
    /\ pdriver' = [pdriver EXCEPT ![p] = "driver"]
    /\ LET fns == WithSiblings(ClassFunctions[plugins[p].cls])
       IN  /\ plugins' = [plugins EXCEPT
                            ![p].listeners = RegisterAll(plugins[p].listeners, fns)]
           /\ fplugin' = [f \in FunctionNames |->
                            IF \E k \in DOMAIN fns : fns[k] = f THEN p
                            ELSE fplugin[f]]
    /\ UNCHANGED <<username, IGNORE_USERS, on_start_calls, ignore_own_messages,
                   message_listeners, tasks, lastEvent, raised>>
    /\ UNCHANGED <<poolVars, stripVars, webhookVars>>

\* Plugin.on_start(), the hook, called by the plugin's user
on_start(p) ==
    /\ p \in DOMAIN plugins
    /\ on_start_calls[p] < MaxOnStart
    /\ on_start_calls' = [on_start_calls EXCEPT ![p] = @ + 1]
    /\ UNCHANGED <<username, IGNORE_USERS, plugins, fplugin, pdriver,
                   ignore_own_messages, message_listeners, tasks, lastEvent,
                   raised>>
    /\ UNCHANGED <<poolVars, stripVars, webhookVars>>

RECURSIVE CollectListeners(_, _)
\* EventHandler.__init__: for plugin in plugins: for matcher, functions in
\* plugin.message_listeners.items(): message_listeners[matcher].extend(functions)
CollectPlugin(acc, listeners) ==
    LET F[k \in 0..Len(listeners)] ==
            IF k = 0 THEN acc
            ELSE DictExtend(F[k - 1], listeners[k].matcher, listeners[k].functions)
    IN  F[Len(listeners)]
CollectListeners(acc, ps) ==
    IF ps = <<>> THEN acc
    ELSE CollectListeners(CollectPlugin(acc, Head(ps).listeners), Tail(ps))

(***************************************************************************)
(* Inbound events                                                          *)
(***************************************************************************)
BotName == <<"b", "o", "t">>
BotUserId == "bot_id"

T_ping_mention == <<"@", "b", "o", "t", ":", " ", "!", "p", "i", "n", "g">>
T_a_foo == <<"!", "a", " ", "f", "o", "o">>
T_help == <<"h", "e", "l", "p">>
T_hello == <<"h", "e", "l", "l", "o">>
T_bot_hello == <<"@", "b", "o", "t", ":", " ", "h", "e", "l", "l", "o">>

T_dm == <<"!", "d", "m">>
T_o == <<"!", "o">>
T_s == <<"!", "s">>

Texts == {T_ping_mention, T_a_foo, T_help, T_hello}

\* data.channel_type: direct, open, group
ChannelTypes == {"D", "O", "G"}

\* data.mentions after json.loads: a list of user ids; <<>> also stands for a
\* missing key, which Message.mentions reads as []
MentionLists == {<<>>, <<BotUserId>>}

\* data.sender_name as delivered; <<>> also stands for a missing key, which
\* Message.sender_name reads as ""
SenderNames == {<<"@", "a", "l">>, <<"A", "l">>, <<"@", "b", "o", "t">>, <<>>}

UserIds == {BotUserId, "u1"}

\* The raw payload of handle_event.  shape says how far it is well formed:
\*   badjson    data is not JSON
\*   nodata     no "data" key
\*   nopost     "data" without "post"
\*   badpost    data.post is not a JSON string
\*   nomessage  the post has no "message"
\*   ok         all the fields below are there
RawEvent(shape, event, message, sender_name, user_id) ==
    [shape |-> shape, event |-> event, message |-> message,
     sender_name |-> sender_name, user_id |-> user_id,
     channel_type |-> "O", mentions |-> <<>>]

\* A well-formed posted event from user "al" in a channel of a given kind,
\* with a given mention list
PostedIn(message, channel_type, mentions) ==
    [RawEvent("ok", "posted", message, <<"@", "a", "l">>, "u1")
        EXCEPT !.channel_type = channel_type, !.mentions = mentions]

MalformedShapes == {"badjson", "nodata", "nopost", "badpost", "nomessage"}

Events ==
    {RawEvent("ok", "posted", m, s, u) : m \in Texts, s \in SenderNames, u \in UserIds}
    \cup {RawEvent(sh, "posted", <<>>, <<>>, "u1") : sh \in MalformedShapes}
    \cup {RawEvent("ok", "typing", <<>>, <<>>, "u1")}

\* Posted events that differ in channel kind and mention list, for the
\* listeners' flags, and in the groups their text gives a pattern
ListenerEvents ==
    {PostedIn(T_help, "O", ms) : ms \in MentionLists}
    \cup {PostedIn(T_help, "D", <<>>)}
    \cup {PostedIn(T_dm, c, <<>>) : c \in ChannelTypes}
    \cup {PostedIn(m, "O", <<>>) : m \in {T_o, T_s, T_a_foo}}
    \cup {PostedIn(T_ping_mention, "O", ms) : ms \in MentionLists}

NoEvent == RawEvent("none", "none", <<>>, <<>>, "none")

\* Message.text
Message_text(body) == StrStrip(body.message, Whitespace)

\* Message.sender_name
Message_sender_name(body) ==
    StrStrip(StrStrip(body.sender_name, Whitespace), {"@"})

\* Message.user_id
Message_user_id(body) == body.user_id

\* Message.is_direct_message, were a group channel to count as direct
Message_is_direct_message_or_group(body) == body.channel_type \in {"D", "G"}
\* Message.is_direct_message
Message_is_direct_message(body) == body.channel_type = "D"

\* Message.mentions
Message_mentions(body) == body.mentions

\* Function.__call__(message, *args): the handler's body runs when the
\* listener's flags allow the message, otherwise the call returns at once
Function_runs(fn, message) ==
    /\ Functions[fn].direct_only => Message_is_direct_message(message)
    /\ Functions[fn].needs_mention =>
          \E i \in DOMAIN Message_mentions(message) :
              Message_mentions(message)[i] = BotUserId

(***************************************************************************)
(* EventHandler                                                            *)
(***************************************************************************)
\* EventHandler._should_ignore, with the sender's name compared as it is
EH_should_ignore_exact(message) ==
    \/ \E i \in DOMAIN IGNORE_USERS :
          Message_sender_name(message) = StrLower(IGNORE_USERS[i])
    \/ (ignore_own_messages /\ Message_sender_name(message) = username)
\* EventHandler._should_ignore
EH_should_ignore(message) ==
    \/ \E i \in DOMAIN IGNORE_USERS :
          StrLower(Message_sender_name(message)) = StrLower(IGNORE_USERS[i])
    \/ (ignore_own_messages /\ Message_sender_name(message) = username)

\* match.groups() without the empty ones
NonEmptyGroups(groups) == SelectSeq(groups, LAMBDA g : g # <<>>)

\* The call function.plugin.call_function(function, message, groups=groups)
\* for the j-th function under the k-th pattern
\*   msg: the Message, by the properties a Function and its handler read
Call(k, j, fn, groups, message) ==
    [k |-> k, j |-> j, fn |-> fn, owner |-> fplugin[fn], groups |-> groups,
     msg |-> [text |-> Message_text(message),
              channel_type |-> message.channel_type,
              mentions |-> Message_mentions(message)]]

\* if match: groups = [...]; for function in functions: one call each
CallsOf(listeners, k, groups, message) ==
    [j \in 1..Len(listeners[k].functions) |->
        Call(k, j, listeners[k].functions[j], groups, message)]

CallsIfMatched(listeners, k, m, message) ==
    IF m.matched THEN CallsOf(listeners, k, NonEmptyGroups(m.groups), message)
    ELSE <<>>

\* The loop of _handle_post stopping at the first pattern that matches
RECURSIVE CollectCallsFirstMatch(_, _, _)
CollectCallsFirstMatch(listeners, k, message) ==
    IF k > Len(listeners) THEN <<>>
    ELSE IF ReMatch(listeners[k].matcher, Message_text(message)).matched
         THEN CallsIfMatched(listeners, k,
                  ReMatch(listeners[k].matcher, Message_text(message)), message)
         ELSE CollectCallsFirstMatch(listeners, k + 1, message)
\* _handle_post: for matcher, functions in self.message_listeners.items(): ...
\* the calls made, from the k-th pattern on, in order
RECURSIVE CollectCalls(_, _, _)
CollectCalls(listeners, k, message) ==
    IF k > Len(listeners) THEN <<>>
    ELSE CallsIfMatched(listeners, k,
             ReMatch(listeners[k].matcher, Message_text(message)), message)
            \o CollectCalls(listeners, k + 1, message)

\* What one handle_event does: the exception it lets out, the calls it makes
Returns(calls) == [raised |-> FALSE, calls |-> calls]
Raises == [raised |-> TRUE, calls |-> <<>>]

\* The message after the mention prefix is stripped from the post's text
Normalized(post) == [post EXCEPT !.message = EH_name_matcher_sub(post.message)]

\* _handle_post from message = Message(post) on
DispatchMessage(message) ==
    IF EH_should_ignore(message) THEN Returns(<<>>)
    ELSE Returns(CollectCalls(message_listeners, 1, message))

\* EventHandler._handle_post.  json.loads(post["data"]["post"]) and
\* post["data"]["post"]["message"] raise on a payload that lacks them.
EH_handle_post(post) ==
    IF post.shape \in {"nodata", "nopost", "badpost", "nomessage"} THEN Raises
    ELSE DispatchMessage(Normalized(post))

\* EventHandler.handle_event: json.loads(data) raises on invalid JSON
EH_handle_event(data) ==
    IF data.shape = "badjson" THEN Raises
    ELSE IF data.event = "posted" THEN EH_handle_post(data)
    ELSE Returns(<<>>)

\* A task is unfinished until its coroutine returned or raised
Unfinished(t) == t.st \in {"pending", "suspended"}

\* The task as it would be were the call awaited in place
NewTaskAwaited(call, tag) ==
    [call |-> call, ev |-> tag, ran |-> TRUE,
     st |-> IF Functions[call.fn].does = "raise" THEN "raised" ELSE "done"]
\* asyncio.create_task(function.plugin.call_function(...)): scheduled, not run
\*   ran: history, the handler's body has been entered in this task
NewTask(call, tag) ==
    [call |-> call, st |-> "pending", ev |-> tag, ran |-> FALSE]

\* The tasks of earlier events that are still running when an event arrives
Retag(ts) == [i \in DOMAIN ts |-> [ts[i] EXCEPT !.ev = "old"]]
Carried == Retag(SelectSeq(tasks, Unfinished))

\* The tasks created for the calls of one event
NewTasks(calls) == [i \in DOMAIN calls |-> NewTask(calls[i], "last")]

\* The state after handle_event made the tasks new and let out (or not) an
\* exception, with the tasks carried over from earlier events
Handled(data, r, carried, new) ==
    /\ Len(queue) + Len(carried) + Len(new) <= MaxInFlight
    /\ tasks' = carried \o new
    /\ lastEvent' = data
    /\ raised' = r.raised
    /\ UNCHANGED <<username, IGNORE_USERS, plugins, fplugin, pdriver,
                   on_start_calls, ignore_own_messages, message_listeners>>
    /\ UNCHANGED <<poolVars, stripVars, webhookVars>>

\* handle_event(data), from the transport's callback.  It has no await that
\* suspends, so it runs in one step of the event loop.
HandleResult(data, r) == Handled(data, r, Carried, NewTasks(r.calls))
handle_event(data) == HandleResult(data, EH_handle_event(data))

\* The tasks after task i reached state st, were a failure to cancel the
\* tasks created with it
TasksAfterCancelling(i, st) ==
    [j \in DOMAIN tasks |->
        IF j = i THEN [tasks[j] EXCEPT !.st = st]
        ELSE IF st = "raised" /\ Unfinished(tasks[j]) /\ tasks[j].ev = tasks[i].ev
             THEN [tasks[j] EXCEPT !.st = "cancelled"]
             ELSE tasks[j]]
\* The tasks after task i reached state st: every task is its own; gather is
\* not awaited and cancels nothing
TasksAfter(i, st) == [tasks EXCEPT ![i].st = st]

\* The tasks of the last event are kept, finished or not, until the next event
\* arrives; a finished task of an earlier event is forgotten
Forget(ts) ==
    SelectSeq(ts, LAMBDA t : t.ev = "last" \/ Unfinished(t) \/ t.st = "cancelled")

\* (function, (message, *groups)) as ThreadPool.add_task stores it
\*   kind: what calling it does: return without running the handler's body
\*         ("skip"), run it and return ("ok"), run it and raise ("raise")
\*   all_busy: history, every worker was busy when the task was enqueued
HandlerTask(call) ==
    [id |-> 0,
     kind |-> IF ~Function_runs(call.fn, call.msg) THEN "skip"
              ELSE IF Functions[call.fn].does = "raise" THEN "raise" ELSE "ok",
     fn |-> call.fn, args |-> <<call.msg>> \o call.groups,
     all_busy |-> started /\ busy = num_workers]

\* The tasks with task i marked as having entered its handler's body or not
Entered(ts, i, b) == [ts EXCEPT ![i].ran = b]

\* call_function, were a blocking handler called in place on the event loop
call_function_inline(i) ==
    /\ i \in DOMAIN tasks
    /\ tasks[i].st = "pending"
    /\ LET f == Functions[tasks[i].call.fn]
           runs == Function_runs(tasks[i].call.fn, tasks[i].call.msg)
       IN  tasks' = Forget(Entered(TasksAfter(i,
                               CASE ~runs -> "done"
                                 [] f.does = "return" -> "done"
                                 [] f.does = "raise" -> "raised"
                                 [] f.does = "await" -> "suspended"), i, runs))
    /\ UNCHANGED queue
    /\ UNCHANGED <<username, IGNORE_USERS, plugins, fplugin, pdriver,
                   on_start_calls, ignore_own_messages, message_listeners,
                   lastEvent, raised>>
    /\ UNCHANGED <<num_workers, started, alive, busy, wpc, wcur, stopPc,
                   sentinelsPut, addedKinds, preStart, preStop, completed,
                   takenOrder>>
    /\ UNCHANGED <<stripVars, webhookVars>>
\* The event loop runs a scheduled task: Plugin.call_function up to its first
\* suspension.  A coroutine handler is awaited in the task; a blocking one is
\* given to the driver's thread pool.
call_function(i) ==
    /\ i \in DOMAIN tasks
    /\ tasks[i].st = "pending"
    /\ LET f == Functions[tasks[i].call.fn]
           runs == Function_runs(tasks[i].call.fn, tasks[i].call.msg)
       IN  IF f.is_coroutine
           THEN /\ tasks' = Forget(Entered(TasksAfter(i,
                               CASE ~runs -> "done"
                                 [] f.does = "return" -> "done"
                                 [] f.does = "raise" -> "raised"
                                 [] f.does = "await" -> "suspended"), i, runs))
                /\ UNCHANGED queue
           ELSE /\ queue' = Append(queue, HandlerTask(tasks[i].call))
                /\ tasks' = Forget(TasksAfter(i, "done"))
    /\ UNCHANGED <<username, IGNORE_USERS, plugins, fplugin, pdriver,
                   on_start_calls, ignore_own_messages, message_listeners,
                   lastEvent, raised>>
    /\ UNCHANGED <<num_workers, started, alive, busy, wpc, wcur, stopPc,
                   sentinelsPut, addedKinds, preStart, preStop, completed,
                   takenOrder>>
    /\ UNCHANGED <<stripVars, webhookVars>>

\* The event loop resumes a coroutine handler suspended at its await
resume_handler(i) ==
    /\ i \in DOMAIN tasks
    /\ tasks[i].st = "suspended"
    /\ tasks' = Forget(TasksAfter(i, "done"))
    /\ UNCHANGED <<username, IGNORE_USERS, plugins, fplugin, pdriver,
                   on_start_calls, ignore_own_messages, message_listeners,
                   lastEvent, raised>>
    /\ UNCHANGED <<poolVars, stripVars, webhookVars>>

(***************************************************************************)
(* Webhooks                                                                *)
(***************************************************************************)
W_ping == <<"p", "i", "n", "g">>
W_other == <<"x">>

\* An item of the webhook queue: (webhook_id, data);  trigger says whether
\* "trigger_id" is a key of data
WebhookItem(webhook_id, trigger) == [webhook_id |-> webhook_id, trigger |-> trigger]

WebhookItems == {WebhookItem(id, t) : id \in {W_ping, W_other}, t \in BOOLEAN}

NoWebhook == [webhook_id |-> <<>>, trigger |-> FALSE, event |-> "none",
              raised |-> FALSE]

\* plugin.webhook_listeners of a plugin of class cls: the webhook listeners the
\* plugin registered, pattern by pattern
PluginWebhookListeners(cls) ==
    IF cls = "Ping" THEN << [matcher |-> P_hook, functions |-> <<"hook">>] >>
    ELSE <<>>

\* EventHandler.__init__: for plugin in plugins: for matcher, functions in
\* plugin.webhook_listeners.items(): webhook_listeners[matcher].extend(functions)
RECURSIVE CollectWebhookListeners(_, _)
CollectWebhookListeners(acc, ps) ==
    IF ps = <<>> THEN acc
    ELSE CollectWebhookListeners(
             CollectPlugin(acc, PluginWebhookListeners(Head(ps).cls)), Tail(ps))

\* Before EventHandler.start: no queue is polled
WebhooksOff ==
    /\ webhook_listeners = <<>>
    /\ webhook_queue = <<>>
    /\ pollerPc = "off"
    /\ lastWebhook = NoWebhook
    /\ webhooksPut = 0

\* The parameters of Plugin.call_function after self, none with a default
call_function_params == {"function", "message", "groups"}

\* The arguments _handle_webhook gives:  call_function(function, event)
webhook_call_args == {"function", "message"}

\* ActionEvent(data) if "trigger_id" in data else WebHookEvent(data)
WebhookEvent(item) ==
    [event |-> IF item.trigger THEN "ActionEvent" ELSE "WebHookEvent",
     webhook_id |-> item.webhook_id]

\* _handle_webhook's loop: one call per function under every pattern that
\* matches the webhook id, in order
RECURSIVE CollectWebhookCalls(_, _, _)
CollectWebhookCalls(listeners, k, item) ==
    IF k > Len(listeners) THEN <<>>
    ELSE (IF ReMatch(listeners[k].matcher, item.webhook_id).matched
          THEN [j \in 1..Len(listeners[k].functions) |->
                  [k |-> k, j |-> j, fn |-> listeners[k].functions[j],
                   owner |-> fplugin[listeners[k].functions[j]],
                   groups |-> <<>>, msg |-> WebhookEvent(item)]]
          ELSE <<>>)
         \o CollectWebhookCalls(listeners, k + 1, item)

\* EventHandler._handle_webhook.  The first call it makes lacks an argument
\* call_function requires: Python raises TypeError where the call is written,
\* before any task is created.
EH_handle_webhook(item) ==
    LET calls == CollectWebhookCalls(webhook_listeners, 1, item)
    IN  IF calls # <<>> /\ ~(call_function_params \subseteq webhook_call_args)
        THEN Raises
        ELSE Returns(calls)

\* EventHandler.start with WEBHOOK_HOST_ENABLED: the check_webhook_queue task
\* is created on the event loop
EH_start ==
    /\ pollerPc = "off"
    /\ pollerPc' = "poll"
    /\ UNCHANGED <<webhook_listeners, webhook_queue, lastWebhook, webhooksPut>>
    /\ UNCHANGED <<poolVars, engineVars, stripVars>>

\* The webhook server puts an item on the queue
put_webhook(item) ==
    /\ webhooksPut < MaxWebhooks
    /\ webhook_queue' = Append(webhook_queue, item)
    /\ webhooksPut' = webhooksPut + 1
    /\ UNCHANGED <<webhook_listeners, pollerPc, lastWebhook>>
    /\ UNCHANGED <<poolVars, engineVars, stripVars>>

\* One turn of check_webhook_queue's loop that finds an item (on Empty the
\* turn changes nothing): get_nowait, then await _handle_webhook.  Only Empty
\* is caught, so any other exception ends the task.
check_webhook_queue ==
    /\ pollerPc = "poll"
    /\ webhook_queue # <<>>
    /\ webhook_queue' = Tail(webhook_queue)
    /\ LET item == Head(webhook_queue)
           r == EH_handle_webhook(item)
       IN  /\ Len(queue) + Len(Carried) + Len(r.calls) <= MaxInFlight
           /\ tasks' = Carried \o NewTasks(r.calls)
           /\ lastWebhook' = [webhook_id |-> item.webhook_id,
                              trigger |-> item.trigger,
                              event |-> WebhookEvent(item).event,
                              raised |-> r.raised]
           /\ pollerPc' = IF r.raised THEN "dead" ELSE "poll"
    /\ UNCHANGED <<webhook_listeners, webhooksPut>>
    /\ UNCHANGED <<username, IGNORE_USERS, plugins, fplugin, pdriver,
                   on_start_calls, ignore_own_messages, message_listeners,
                   lastEvent, raised>>
    /\ UNCHANGED <<poolVars, stripVars>>

(***************************************************************************)
(* Mention stripping applied to one text                                   *)
(***************************************************************************)
StripAlphabet == {"@", "b", ":", " ", "h"}

BoundedSeqs(S, n) == UNION {[1..k -> S] : k \in 0..n}

StripIdle ==
    /\ stripPc = "input"
    /\ sText = <<>>
    /\ sOnce = <<>>
    /\ sTwice = <<>>

strip_EH ==
    /\ stripPc = "input"
    /\ stripPc' = "EH"
    /\ sOnce' = EH_name_matcher_sub(sText)
    /\ sTwice' = EH_name_matcher_sub(EH_name_matcher_sub(sText))
    /\ UNCHANGED <<sText, poolVars, engineVars, webhookVars>>

strip_MH ==
    /\ stripPc = "input"
    /\ stripPc' = "MH"
    /\ sOnce' = MH_name_matcher_sub(sText)
    /\ sTwice' = MH_name_matcher_sub(MH_name_matcher_sub(sText))
    /\ UNCHANGED <<sText, poolVars, engineVars, webhookVars>>

(***************************************************************************)
(* Specifications                                                          *)
(***************************************************************************)
\* The plugins given to the EventHandler, by class, in order
PluginConfigs == {<<"Ping">>, <<"Ping", "Alpha">>, <<"Alpha", "Ping">>}

EngineConstructed(classes) ==
    /\ plugins = [i \in DOMAIN classes |-> InitializedPlugin(classes[i])]
    /\ fplugin = OwnerAfterInitialize(classes)
    /\ pdriver = [i \in DOMAIN classes |-> "driver"]
    /\ on_start_calls = [i \in DOMAIN classes |-> 0]
    /\ message_listeners = CollectListeners(<<>>, plugins)
    /\ tasks = <<>>
    /\ lastEvent = NoEvent
    /\ raised = FALSE

\* The dispatch engine: an EventHandler over initialized plugins, fed events
Init ==
    /\ PoolConstructed(1)
    /\ username = BotName
    /\ IGNORE_USERS \in {<<>>, << <<"A", "l">> >>}
    /\ ignore_own_messages \in BOOLEAN
    /\ \E classes \in PluginConfigs : EngineConstructed(classes)
    /\ StripIdle
    /\ WebhooksOff

Next ==
    \/ \E data \in Events : handle_event(data)
    \/ \E i \in 1..MaxInFlight : call_function(i)
    \/ \E i \in 1..MaxInFlight : resume_handler(i)

Spec == Init /\ [][Next]_vars

\* The dispatch engine fed the events that exercise the listeners' flags
\* and groups
ListenerInit ==
    /\ PoolConstructed(1)
    /\ username = BotName
    /\ IGNORE_USERS = <<>>
    /\ ignore_own_messages = TRUE
    /\ \E classes \in {<<"Ping", "Beta">>, <<"Beta", "Ping">>} :
          EngineConstructed(classes)
    /\ StripIdle
    /\ WebhooksOff

\* No handler of these plugins awaits, so no task is ever resumed.
ListenerNext ==
    \/ \E data \in ListenerEvents : handle_event(data)
    \/ \E i \in 1..MaxInFlight : call_function(i)

ListenerSpec == ListenerInit /\ [][ListenerNext]_vars

\* The dispatch engine together with the driver's thread pool: the handlers
\* call_function enqueues are run by the workers
BotEvents == {PostedIn(T_a_foo, "O", <<>>), PostedIn(T_ping_mention, "O", <<>>)}

BotInit ==
    /\ \E n \in 1..MaxWorkers : PoolConstructed(n)
    /\ username = BotName
    /\ IGNORE_USERS = <<>>
    /\ ignore_own_messages = TRUE
    /\ EngineConstructed(<<"Ping", "Alpha">>)
    /\ StripIdle
    /\ WebhooksOff

BotNext ==
    \/ start
    \/ \E w \in Workers : handle_work(w)
    \/ \E data \in BotEvents : handle_event(data)
    \/ \E i \in 1..MaxInFlight : call_function(i)
    \/ \E i \in 1..MaxInFlight : resume_handler(i)

BotSpec == BotInit /\ [][BotNext]_vars

\* The thread pool alone
PoolInit ==
    /\ \E n \in 1..MaxWorkers : PoolConstructed(n)
    /\ username = BotName
    /\ IGNORE_USERS = <<>>
    /\ ignore_own_messages = TRUE
    /\ EngineConstructed(<<>>)
    /\ StripIdle
    /\ WebhooksOff

PoolNext ==
    \/ add_task
    \/ start
    \/ \E w \in Workers : handle_work(w)
    \/ stop

PoolSpec == PoolInit /\ [][PoolNext]_vars

\* Threads that can take a step do take it; stop()'s caller keeps running.
PoolFairSpec ==
    /\ PoolSpec
    /\ \A w \in 1..MaxWorkers : WF_vars(w \in Workers /\ handle_work(w))
    /\ WF_vars(stop)

\* The plugin lifecycle alone: plugins are constructed, then initialized in
\* any order; on_start is called by whoever holds the plugin
PluginLists == UNION {[1..n -> DOMAIN ClassFunctions] : n \in 1..MaxPlugins}

PluginInit ==
    /\ PoolConstructed(1)
    /\ username = BotName
    /\ IGNORE_USERS = <<>>
    /\ ignore_own_messages = TRUE
    /\ \E classes \in PluginLists :
          /\ plugins = [i \in DOMAIN classes |-> ConstructedPlugin(classes[i])]
          /\ pdriver = [i \in DOMAIN classes |-> "None"]
          /\ on_start_calls = [i \in DOMAIN classes |-> 0]
    /\ fplugin = [f \in FunctionNames |-> 0]
    /\ message_listeners = <<>>
    /\ tasks = <<>>
    /\ lastEvent = NoEvent
    /\ raised = FALSE
    /\ StripIdle
    /\ WebhooksOff

PluginNext ==
    \/ \E p \in 1..MaxPlugins : initialize(p)
    \/ \E p \in 1..MaxPlugins : on_start(p)

PluginSpec == PluginInit /\ [][PluginNext]_vars

\* The webhook path alone: an EventHandler over one plugin that has a webhook
\* listener, started with webhooks enabled, and a server that puts items
WebhookInit ==
    /\ PoolConstructed(1)
    /\ username = BotName
    /\ IGNORE_USERS = <<>>
    /\ ignore_own_messages = TRUE
    /\ EngineConstructed(<<"Ping">>)
    /\ StripIdle
    /\ webhook_listeners = CollectWebhookListeners(<<>>, plugins)
    /\ webhook_queue = <<>>
    /\ pollerPc = "off"
    /\ lastWebhook = NoWebhook
    /\ webhooksPut = 0

WebhookNext ==
    \/ EH_start
    \/ \E item \in WebhookItems : put_webhook(item)
    \/ check_webhook_queue

WebhookSpec == WebhookInit /\ [][WebhookNext]_vars

\* Mention stripping alone
StripInit ==
    /\ PoolConstructed(1)
    /\ IGNORE_USERS = <<>>
    /\ ignore_own_messages = TRUE
    /\ EngineConstructed(<<>>)
    /\ stripPc = "input"
    /\ sOnce = <<>>
    /\ sTwice = <<>>
    /\ WebhooksOff
    /\ \/ /\ username = <<"b">>
          /\ sText \in BoundedSeqs(StripAlphabet, MaxStripLen)
       \/ /\ username = BotName
          /\ sText \in Texts \cup {T_bot_hello}

StripNext == strip_EH \/ strip_MH

StripSpec == StripInit /\ [][StripNext]_vars


(***************************************************************************)
(* Claims about the ThreadPool                                             *)
(***************************************************************************)
AllWorkersGone == \A w \in Workers : wpc[w] \in {"exited", "dead"}

OnlyReturningTasks == \A i \in DOMAIN addedKinds : addedKinds[i] = "ok"

C3_RaiseKeepsWorker ==
    (started /\ stopPc = "none") => \A w \in Workers : wpc[w] # "dead"

\* C6: stop(), called once on a started pool, eventually returns, and when it
\* has returned every worker thread has left handle_work.
C6_StopReturnsWithAllWorkersExited ==
    /\ [](stopPc = "returned" => AllWorkersGone)
    /\ (stopPc \in {"signal", "join"}) ~> (stopPc = "returned")

\* C6 witness: stop() has returned on a pool of two workers that both consumed
\* a sentinel (the queue is empty again) and left their loop.
C6_Witness ==
    /\ stopPc = "returned"
    /\ num_workers = 2
    /\ queue = <<>>
    /\ \A w \in Workers : wpc[w] = "exited"

\* Task id has been taken from the queue by a worker
Taken(id) == \E i \in DOMAIN takenOrder : takenOrder[i] = id

\* C16 (as stated): constructing the pool starts its N workers, so that once
\* a task has been given to add_task, before stop(), the workers exist, and
\* the task is eventually taken from the queue by one of them with no further
\* call on the pool (start() is such a call: nothing makes it happen).
C16_TaskGivenAfterConstructionIsPickedUp ==
    /\ []((Len(addedKinds) > 0 /\ stopPc = "none") =>
             \A w \in Workers : wpc[w] # "unstarted")
    /\ \A id \in 1..MaxTasks :
          (Len(addedKinds) >= id /\ preStop >= id) ~> Taken(id)

\* C17: workers take tasks from the queue in the order add_task enqueued
\* them, and a pool of one worker calls them in that order: when it is about
\* to call a task, every task enqueued earlier has been called and returned.
C17_TasksTakenInEnqueueOrder ==
    /\ \A i \in DOMAIN takenOrder : takenOrder[i] = i
    /\ num_workers = 1 =>
          \A w \in Workers :
              (wpc[w] = "call" /\ wcur[w].id > 0) =>
                  \A id \in 1..(wcur[w].id - 1) : id \in completed

\* C17 witness: two workers took tasks 1 and 2 in that order, task 2 has
\* completed and task 1 is still to be called: B completes before A.
C17_Witness ==
    /\ num_workers = 2
    /\ takenOrder = <<1, 2>>
    /\ 2 \in completed
    /\ 1 \notin completed
    /\ \E w \in Workers : wpc[w] = "call" /\ wcur[w].id = 1

\* Worker w is not executing a task: its thread does not exist yet, it is
\* between tasks or waiting in get(), or its thread has ended
NotExecuting(w) == wpc[w] \in {"unstarted", "check", "get", "exited", "dead"}

\* C21 (as stated): get_busy_workers() is between 0 and N, and it is 0 whenever
\* every worker is waiting for a task or has exited, whatever tasks, returning
\* or raising, ran before.
C21_BusyCountsOnlyExecutingWorkers ==
    /\ get_busy_workers \in 0..num_workers
    /\ (\A w \in Workers : NotExecuting(w)) => get_busy_workers = 0

(***************************************************************************)
(* Claims about the dispatch engine                                        *)
(***************************************************************************)
\* The last event was a well-formed posted message
LastPosted == lastEvent.shape = "ok" /\ lastEvent.event = "posted"

\* The Message of the last event and its text
LastMessage == Normalized(lastEvent)
LastText == Message_text(LastMessage)

\* The tasks created by the last handle_event
LastTasks == {i \in DOMAIN tasks : tasks[i].ev = "last"}

\* The places (plugin, pattern, position) where function f is registered
\* under matcher m in some plugin's listeners
Registrations(f, m) ==
    UNION {UNION {{<<p, k, j>> : j \in {j \in DOMAIN plugins[p].listeners[k].functions :
                                         plugins[p].listeners[k].functions[j] = f}} :
                  k \in {k \in DOMAIN plugins[p].listeners :
                            plugins[p].listeners[k].matcher = m}} :
           p \in DOMAIN plugins}

AllMatchers == {Functions[f].matcher : f \in FunctionNames}

\* The last tasks that call function f for a match of matcher m
TasksFor(f, m) ==
    {i \in LastTasks :
        /\ tasks[i].call.fn = f
        /\ tasks[i].call.k \in DOMAIN message_listeners
        /\ message_listeners[tasks[i].call.k].matcher = m}

\* C1: a posted message that is not ignored creates one call_function task
\* for every registration of a listener under a pattern that matches the
\* normalized text, whatever other patterns match, and no task for a listener
\* under a pattern that does not match.
C1_EveryMatchingListenerOnce ==
    (LastPosted /\ ~EH_should_ignore(Normalized(lastEvent))) =>
        /\ ~raised
        /\ \A f \in FunctionNames : \A m \in AllMatchers :
              Cardinality(TasksFor(f, m)) =
                  IF ReMatch(m, LastText).matched
                  THEN Cardinality(Registrations(f, m))
                  ELSE 0
        /\ \A i \in LastTasks : \E m \in AllMatchers : i \in TasksFor(tasks[i].call.fn, m)

\* C1 witness: "!a foo" handled with both plugins: listeners under two
\* different matching patterns each have their task, ping has none.
C1_Witness ==
    /\ LastPosted
    /\ lastEvent.message = T_a_foo
    /\ Len(plugins) = 2
    /\ TasksFor("echo", P_a_word) # {}
    /\ TasksFor("boom", P_a) # {}
    /\ TasksFor("wait", P_a) # {}
    /\ TasksFor("ping", P_ping) = {}

\* The sender's name, lowercased, is the lowercased form of an ignored name
SenderIgnored(e) ==
    \E i \in DOMAIN IGNORE_USERS :
        StrLower(Message_sender_name(e)) = StrLower(IGNORE_USERS[i])

\* C4: a posted message whose sender name is, case-insensitively, in
\* IGNORE_USERS creates no call_function task, whatever its text.
C4_IgnoredSenderNeverDispatched ==
    (LastPosted /\ SenderIgnored(lastEvent)) => (LastTasks = {} /\ ~raised)

\* C4 witness: "!a foo" from "@al" with "Al" ignored has been handled.
C4_Witness ==
    /\ LastPosted
    /\ SenderIgnored(lastEvent)
    /\ lastEvent.sender_name = <<"@", "a", "l">>
    /\ lastEvent.message = T_a_foo
    /\ LastTasks = {}

\* C5 (as stated): with ignore_own_messages set, a posted message whose
\* sender's user id is the bot's own creates no call_function task, whatever
\* its text and its sender name.
C5_OwnMessageNeverDispatched ==
    (LastPosted /\ ignore_own_messages /\ Message_user_id(lastEvent) = BotUserId)
        => LastTasks = {}

\* C7 (as stated): handle_event given a malformed event raises nothing.
C7_MalformedEventRaisesNothing ==
    (lastEvent.shape \in MalformedShapes) => ~raised

\* C8: a coroutine handler that raises ends its own task only: no task is ever
\* cancelled, and once the tasks of the last event have all ended, each of them
\* ended by returning except the ones whose own handler raises, and
\* handle_event itself raised nothing.
C8_HandlerFailureIsIsolated ==
    /\ \A i \in DOMAIN tasks :
          tasks[i].st \in {"pending", "suspended", "done", "raised"}
    /\ (LastPosted /\ \A i \in LastTasks : ~Unfinished(tasks[i])) =>
          /\ ~raised
          /\ \A i \in LastTasks :
                tasks[i].st = IF Functions[tasks[i].call.fn].is_coroutine
                                 /\ Functions[tasks[i].call.fn].does = "raise"
                              THEN "raised" ELSE "done"

\* C8 witness: the tasks of one event have all ended, boom by raising, and
\* wait, which was suspended at an await, by returning.
C8_Witness ==
    /\ LastPosted
    /\ \A i \in LastTasks : ~Unfinished(tasks[i])
    /\ \E i \in LastTasks : tasks[i].call.fn = "boom" /\ tasks[i].st = "raised"
    /\ \E i \in LastTasks : tasks[i].call.fn = "wait" /\ tasks[i].st = "done"

\* C9: a handle_event step leaves every task it created scheduled and not yet
\* run, gives nothing to the thread pool, and leaves the unfinished tasks of
\* earlier events as they were: it waits for no handler.  (A handle_event
\* step is a step handle_event(data) for the data it records in lastEvent.)
C9_HandleEventWaitsForNothing ==
    [][(lastEvent' \in Events /\ handle_event(lastEvent')) =>
          /\ \A i \in DOMAIN tasks' :
                tasks'[i].ev = "last" => tasks'[i].st = "pending"
          /\ \A i \in DOMAIN tasks :
                Unfinished(tasks[i]) =>
                    \E j \in DOMAIN tasks' :
                        /\ tasks'[j].call = tasks[i].call
                        /\ tasks'[j].st = tasks[i].st
                        /\ tasks'[j].ev = "old"
          /\ queue' = queue]_vars

\* C9 witness: a second event has been handled and has its tasks while a
\* handler of an earlier event is still suspended at its await.
C9_Witness ==
    /\ \E i \in DOMAIN tasks : tasks[i].ev = "old" /\ tasks[i].st = "suspended"
    /\ \E i \in DOMAIN tasks : tasks[i].ev = "last"

(***************************************************************************)
(* Claims about patterns, groups and listener flags                        *)
(***************************************************************************)
\* C11 (as stated): every call made for a posted message passes neither an
\* empty group nor a group that took no part in the match; for "!a foo" the
\* listener on ^!a (\w+)$ is passed ["foo"] and the listeners on ^!a are
\* passed [].
C11_OnlyParticipatingNonEmptyGroupsPassed ==
    LastPosted =>
        \A i \in LastTasks :
            /\ \A g \in DOMAIN tasks[i].call.groups :
                  /\ tasks[i].call.groups[g] # <<>>
                  /\ tasks[i].call.groups[g] # NoGroup
            /\ (lastEvent.message = T_a_foo) =>
                  tasks[i].call.groups =
                      IF tasks[i].call.fn = "echo" THEN << <<"f", "o", "o">> >>
                      ELSE <<>>

\* The literal of pattern m occurs in t at an offset greater than zero
OccursLater(m, t) == \E from \in 2..Len(t) : StartsWith(t, from, m.lit)

\* C12 (as stated): a listener whose pattern does not anchor itself and
\* occurs in the normalized text at an offset greater than zero is
\* dispatched.
C12_UnanchoredPatternFoundAnywhere ==
    (LastPosted /\ ~EH_should_ignore(LastMessage)) =>
        \A f \in FunctionNames :
            LET m == Functions[f].matcher
            IN  (/\ Registrations(f, m) # {}
                 /\ ~m.anchored /\ m.grp = "none" /\ ~m.end
                 /\ OccursLater(m, LastText)) => TasksFor(f, m) # {}

\* The bot's user id is in the mention list of the message of a call
Mentioned(call) ==
    \E i \in DOMAIN call.msg.mentions : call.msg.mentions[i] = BotUserId

UnfinishedCount(ts) == Cardinality({i \in DOMAIN ts : Unfinished(ts[i])})

\* C18: a call_function step for a blocking handler appends one task
\* (handler, (event, *groups)) to the pool's queue and ends the call, touching
\* no worker, however many workers are busy; for a coroutine handler it puts
\* nothing on the queue and the call ends in that step unless the handler is
\* suspended at an await, in which case the call has not returned.
C18_CallFunctionEnqueuesOrRunsInline ==
    [][\A i \in 1..MaxInFlight :
          call_function(i) =>
              IF ~Functions[tasks[i].call.fn].is_coroutine
              THEN /\ Len(queue') = Len(queue) + 1
                   /\ SubSeq(queue', 1, Len(queue)) = queue
                   /\ queue'[Len(queue')].fn = tasks[i].call.fn
                   /\ queue'[Len(queue')].args =
                         <<tasks[i].call.msg>> \o tasks[i].call.groups
                   /\ UnfinishedCount(tasks') = UnfinishedCount(tasks) - 1
                   /\ <<wpc, wcur, busy>>' = <<wpc, wcur, busy>>
              ELSE /\ queue' = queue
                   /\ UnfinishedCount(tasks') =
                         IF Functions[tasks[i].call.fn].does = "await"
                         THEN UnfinishedCount(tasks)
                         ELSE UnfinishedCount(tasks) - 1]_vars

\* C18 witness: a blocking handler's task is in the queue, enqueued while
\* every worker of the started pool was busy, and its call has ended; the
\* workers are still busy.
C18_Witness ==
    /\ started
    /\ busy = num_workers
    /\ \E q \in DOMAIN queue : queue[q].fn = "echo" /\ queue[q].all_busy
    /\ \E i \in DOMAIN tasks : tasks[i].call.fn = "echo" /\ tasks[i].st = "done"

(***************************************************************************)
(* Claims about webhooks                                                   *)
(***************************************************************************)
\* C13 (as stated): an item taken from the webhook queue has one
\* call_function task for every webhook listener whose pattern matches its
\* webhook id, carrying an ActionEvent when the payload has a trigger id and
\* a WebHookEvent otherwise, and the queue goes on being polled after it,
\* so that later items are routed too.
C13_WebhookReachesEveryMatchingListener ==
    (lastWebhook # NoWebhook) =>
        /\ \A k \in DOMAIN webhook_listeners :
              \A j \in DOMAIN webhook_listeners[k].functions :
                  ReMatch(webhook_listeners[k].matcher,
                          lastWebhook.webhook_id).matched =>
                      Cardinality({i \in DOMAIN tasks :
                          /\ tasks[i].ev = "last"
                          /\ tasks[i].call.fn = webhook_listeners[k].functions[j]
                          /\ tasks[i].call.k = k
                          /\ tasks[i].call.msg.event =
                                IF lastWebhook.trigger THEN "ActionEvent"
                                ELSE "WebHookEvent"}) = 1
        /\ pollerPc = "poll"

(***************************************************************************)
(* Claims about the plugin lifecycle                                       *)
(***************************************************************************)
AllInitialized == \A p \in DOMAIN plugins : pdriver[p] # "None"

\* C19 (as stated): once initialize has been called on every plugin, every
\* listener held in a plugin's listeners mapping has that plugin as its owner.
C19_ListenerOwnerIsItsRegistry ==
    AllInitialized =>
        \A p \in DOMAIN plugins : \A k \in DOMAIN plugins[p].listeners :
            \A j \in DOMAIN plugins[p].listeners[k].functions :
                fplugin[plugins[p].listeners[k].functions[j]] = p

\* C20 (as stated): a call of initialize on a plugin invokes that plugin's
\* on_start() exactly once before it returns.
C20_InitializeCallsOnStartOnce ==
    [][\A p \in DOMAIN plugins :
          (pdriver[p] = "None" /\ pdriver'[p] # "None") =>
              on_start_calls'[p] = on_start_calls[p] + 1]_vars

(***************************************************************************)
(* Claims about mention stripping                                          *)
(***************************************************************************)
IsPrefix(p, t) == Len(p) <= Len(t) /\ SubSeq(t, 1, Len(p)) = p

\* The texts the mention pattern can match: "@" (optional for EventHandler),
\* the username, an optional ":", an optional whitespace character
MentionForms(at_optional) ==
    {at \o username \o colon \o space :
        at \in (IF at_optional THEN {<<>>, <<"@">>} ELSE {<<"@">>}),
        colon \in {<<>>, <<":">>},
        space \in {<<>>} \cup {<<c>> : c \in Whitespace}}

FormsAt(at_optional, t) == {f \in MentionForms(at_optional) : IsPrefix(f, t)}

\* C10 (amended): stripping removes the longest mention form the text starts
\* with, once, and nothing else; a text that starts with no mention form is
\* unchanged; "@bot: hello" becomes "hello" and "hello" stays "hello".
C10_StripsOneLeadingMention ==
    (stripPc # "input") =>
        /\ FormsAt(stripPc = "EH", sText) = {} => sOnce = sText
        /\ FormsAt(stripPc = "EH", sText) # {} =>
              \E f \in FormsAt(stripPc = "EH", sText) :
                  /\ \A g \in FormsAt(stripPc = "EH", sText) : Len(g) <= Len(f)
                  /\ sText = f \o sOnce
        /\ (username = BotName /\ sText = T_bot_hello) => sOnce = T_hello
        /\ (username = BotName /\ sText = T_hello) => sOnce = T_hello

\* C10 witness: "@bot: hello" stripped by the EventHandler's pattern.
C10_Witness ==
    /\ stripPc = "EH"
    /\ username = BotName
    /\ sText = T_bot_hello
    /\ sOnce = T_hello

\* C10 (as stated): stripping the already-stripped text returns it unchanged.
C10_StripIdempotent ==
    (stripPc # "input") => sTwice = sOnce

====
